---- MODULE Spec2Model ----
(***************************************************************************)
(* A model of the ISIN acquisition pipeline (fetch_isins.py) and of the    *)
(* dashboard's pure helpers (streamlit_app.py).                            *)
(*                                                                         *)
(* Python strings whose characters matter (lines of ISINs.txt, the         *)
(* identifiers parsed from them) are sequences of one-character strings.   *)
(* Python values stored in records are tagged [t |-> tag, v |-> payload]   *)
(* so that values of different Python types can be compared.               *)
(***************************************************************************)
EXTENDS Integers, Sequences, FiniteSets, TLC

VARIABLES
    \* main() of fetch_isins.py
    pc, fileExists, fileLines, args, methods_cfg, isins, idx, results,
    bound, outFile, exitCode,
    \* read_isins() on its own
    raw_lines, parsed,
    \* fetch_info_for_isin() on its own
    fetchCall, fetchRet,
    \* flatten_values()
    obj, once, twice,
    \* write_csv()
    csvRows, csvOut,
    \* _price_series_from_graphdata()
    current, series,
    \* render_compare()
    cmpData, selected_isins, series_list, charts

mainVars   == <<pc, fileExists, fileLines, args, methods_cfg, isins, idx,
                results, bound, outFile, exitCode>>
readVars   == <<raw_lines, parsed>>
fetchVars  == <<fetchCall, fetchRet>>
flatVars   == <<obj, once, twice>>
csvVars    == <<csvRows, csvOut>>
seriesVars == <<current, series>>
compareVars == <<cmpData, selected_isins, series_list, charts>>
vars == <<mainVars, readVars, fetchVars, flatVars, csvVars, seriesVars,
          compareVars>>

\* A component that a specification does not exercise stays in this state.
Idle == "idle"
MainIdle   == /\ pc = Idle /\ fileExists = FALSE /\ fileLines = <<>>
              /\ args = Idle /\ methods_cfg = Idle /\ isins = <<>> /\ idx = 0
              /\ results = <<>> /\ bound = <<>> /\ outFile = <<>>
              /\ exitCode = <<>>
ReadIdle   == raw_lines = <<>> /\ parsed = Idle
FetchIdle  == fetchCall = Idle /\ fetchRet = Idle
FlatIdle   == obj = Idle /\ once = Idle /\ twice = Idle
CsvIdle    == csvRows = <<>> /\ csvOut = Idle
SeriesIdle == current = Idle /\ series = Idle
CompareIdle == /\ cmpData = <<>> /\ selected_isins = {}
               /\ series_list = Idle /\ charts = Idle

----------------------------------------------------------------------------
(* Bounds of the model.                                                    *)
MaxLineLen == 2     \* characters in a line of the identifier file
MaxLines == 2       \* lines in the identifier file

----------------------------------------------------------------------------
(* Generic helpers.                                                        *)
Range(s) == {s[i] : i \in DOMAIN s}
SeqsUpTo(S, n) == UNION {[1..k -> S] : k \in 0..n}

\* the value a Python function has not returned yet
NotYet == [t |-> "notyet", v |-> 0]

----------------------------------------------------------------------------
(* Strings as character sequences.                                         *)
Whitespace == {" "}
ReadAlphabet == {" ", "#", "A"}

RECURSIVE LStrip(_)
LStrip(s) == IF s # <<>> /\ Head(s) \in Whitespace THEN LStrip(Tail(s)) ELSE s

RECURSIVE RStrip(_)
RStrip(s) == IF s # <<>> /\ s[Len(s)] \in Whitespace
             THEN RStrip(SubSeq(s, 1, Len(s) - 1)) ELSE s

\* str.strip()
Strip(s) == RStrip(LStrip(s))

\* "#" in line
HasHash(s) == \E i \in DOMAIN s : s[i] = "#"

\* line.split("#", 1)[0]: the text before the first '#'
BeforeHash(s) ==
    LET first == CHOOSE i \in DOMAIN s : s[i] = "#" /\ \A j \in 1..(i - 1) : s[j] # "#"
    IN  SubSeq(s, 1, first - 1)

----------------------------------------------------------------------------
(* read_isins: fetch_isins.py lines 17-29.                                 *)

\* One iteration of the loop body: the list after reading the line `raw`.
ReadLineBroken(acc, raw) ==
    LET line == Strip(raw)
    IN  IF line = <<>> THEN acc
        ELSE IF Head(line) = "#" THEN acc
        ELSE IF HasHash(line) THEN Append(acc, BeforeHash(line))
        ELSE Append(acc, line)

ReadLine(acc, raw) ==
    LET line == Strip(raw)
    IN  IF line = <<>> THEN acc
        ELSE IF Head(line) = "#" THEN acc
        ELSE IF HasHash(line) THEN Append(acc, Strip(BeforeHash(line)))
        ELSE Append(acc, line)

RECURSIVE ReadFrom(_, _)
ReadFrom(acc, lines) ==
    IF lines = <<>> THEN acc ELSE ReadFrom(ReadLine(acc, Head(lines)), Tail(lines))

read_isins(lines) == ReadFrom(<<>>, lines)

\* The lines of a file: every short line, and two longer ones with a comment
\* after the identifier.
ReadLines ==
    SeqsUpTo(ReadAlphabet, MaxLineLen)
    \cup { <<"A", " ", "#">>, <<" ", "A", "A", " ", "#", " ", "A", "#">> }

ReadInputs == SeqsUpTo(ReadLines, MaxLines)

InitRead ==
    /\ raw_lines \in ReadInputs
    /\ parsed = NotYet
    /\ MainIdle /\ FetchIdle /\ FlatIdle /\ CsvIdle /\ SeriesIdle
    /\ CompareIdle

DoReadIsins ==
    /\ parsed = NotYet
    /\ parsed' = [t |-> "list", v |-> read_isins(raw_lines)]
    /\ UNCHANGED <<raw_lines, mainVars, fetchVars, flatVars, csvVars, seriesVars,
                 compareVars>>

NextRead == DoReadIsins

SpecRead == InitRead /\ [][NextRead]_vars

----------------------------------------------------------------------------
(* C8 *)

\* The lines that contribute an identifier: non-empty after trimming and not
\* starting with '#'.
Contributes(raw) == Strip(raw) # <<>> /\ Head(Strip(raw)) # "#"

\* The identifier such a line contributes, stated on the untouched line: the
\* characters of the line up to its first '#', without the surrounding blanks.
TextOf(raw) ==
    LET cut == IF HasHash(raw) THEN BeforeHash(raw) ELSE raw
    IN  Strip(cut)

RECURSIVE Expected(_)
Expected(lines) ==
    IF lines = <<>> THEN <<>>
    ELSE (IF Contributes(Head(lines)) THEN <<TextOf(Head(lines))>> ELSE <<>>)
         \o Expected(Tail(lines))

WellFormedIsin(s) ==
    /\ s # <<>>
    /\ Head(s) \notin Whitespace
    /\ s[Len(s)] \notin Whitespace
    /\ ~HasHash(s)

\* C8: read_isins returns, in file order and keeping duplicates, exactly one
\* identifier per line that is non-empty after trimming and does not start
\* with '#': the trimmed text before the first '#'. Every identifier is
\* non-empty, has no surrounding whitespace and contains no '#'.
C8_ReadIsins ==
    parsed # NotYet =>
        /\ parsed.v = Expected(raw_lines)
        /\ Len(parsed.v) = Cardinality({i \in DOMAIN raw_lines : Contributes(raw_lines[i])})
        /\ \A i \in DOMAIN parsed.v : WellFormedIsin(parsed.v[i])

\* A file whose first line carries a trailing comment after a blank and whose
\* second line repeats the identifier has been read.
C8_Witness ==
    /\ parsed # NotYet
    /\ raw_lines = << <<"A", " ", "#">>, <<"A">> >>
    /\ parsed.v = << <<"A">>, <<"A">> >>

----------------------------------------------------------------------------
(* Python values.                                                          *)
Tok(s)   == [t |-> "tok",  v |-> s]      \* a str the code or provider spells out
Str(cs)  == [t |-> "str",  v |-> cs]     \* a str kept as its characters
NoneV    == [t |-> "none", v |-> 0]      \* None
Dict(f)  == [t |-> "dict", v |-> f]      \* a dict: a function on its keys
List(s)  == [t |-> "list", v |-> s]      \* a list
EmptyDict == Dict(<<>>)

\* What a call does: it returns a value or raises an exception with a message.
Raise(msg) == [t |-> "raise", v |-> msg]
Raised(x)  == x.t = "raise"

\* bool(x) is False
Falsy(x) == \/ x.t = "none"
            \/ x.t \in {"dict", "list"} /\ DOMAIN x.v = {}

\* x or {}
OrEmpty(x) == IF Falsy(x) THEN EmptyDict ELSE x

\* {**a, **b}: b's entries win
Merge(a, b) == b @@ a

\* d[k] = x on a dict d
SetItem(d, k, x) == (k :> x) @@ d

----------------------------------------------------------------------------
(* The provider (mstarpy), an external collaborator: every call made for   *)
(* one identifier either returns or raises.  A response fixes the outcome  *)
(* of each call the code can make for that identifier.                     *)

FundBindMsg   == "no fund for this code"
StockBindMsg  == "no stock for this code"
DataPointMsg  == "dataPoint failed"
OverviewMsg   == "overview failed"
CallMsg(m)    == m \o " failed"

\* the provider's native result of the zero-argument method m
Native(kind, m) == [t |-> "native", v |-> <<kind, m>>]

\* a provider value container {"value": x}
Container(x) == Dict("value" :> x)

\* what fund.dataPoint(["isin", "name", "previousClosePrice"]) can return
DataPointResults ==
    { NoneV,
      Dict("name" :> Container(Tok("Fund A"))),
      Dict(("isin" :> Container(Tok("provider isin")))
           @@ ("name" :> Container(Tok("Fund A")))
           @@ ("previousClosePrice" :> Container(Tok("12.5")))),
      List(<<Dict("name" :> Container(Tok("Fund A")))>>) }

\* what stock.overview() can return
OverviewResults ==
    { NoneV,
      Dict("name" :> Tok("Stock A")),
      Dict("companyName" :> Tok("Stock A")),
      List(<<Tok("Stock A")>>) }

Resp(fb, dp, fc, sb, sc, ov) ==
    [fundBind |-> fb, dataPoint |-> dp, fundCall |-> fc,
     stockBind |-> sb, stockCall |-> sc, overview |-> ov]

CallOutcomes(kind, methods) ==
    { [m \in Range(methods) |-> IF m \in failing THEN Raise(CallMsg(m)) ELSE Native(kind, m)]
        : failing \in SUBSET Range(methods) }
AllReturn(kind, methods) == [m \in Range(methods) |-> Native(kind, m)]

\* The two ways the fund attempt can fail: the binding raises, or the
\* reference lookup on the bound fund raises.
FundFailures == { <<Raise(FundBindMsg), NoneV>>, <<Tok("fund"), Raise(DataPointMsg)>> }

\* The responses to one identifier.  A call the code does not reach under a
\* response keeps a fixed outcome there, so that two responses differ only in
\* calls that are made.
FullResponses(cfg) ==
    LET fm == cfg.fund_methods
        sm == cfg.stock_methods
    IN  { Resp(Tok("fund"), dp, fc, Tok("stock"), AllReturn("stock", sm), NoneV)
            : dp \in DataPointResults, fc \in CallOutcomes("fund", fm) }
        \cup
        { Resp(ff[1], ff[2], AllReturn("fund", fm), Tok("stock"), sc, NoneV)
            : ff \in FundFailures, sc \in CallOutcomes("stock", sm) }
        \cup
        { Resp(ff[1], ff[2], AllReturn("fund", fm), Raise(StockBindMsg),
               AllReturn("stock", sm), NoneV)
            : ff \in FundFailures }

\* In the lightweight mode a lookup result that is no dict fails the fund
\* attempt too: data["source"] = "fund" raises on it.
ReducedFundFailures ==
    FundFailures \cup { <<Tok("fund"), dp>> : dp \in {d \in DataPointResults : d.t = "list"} }

ReducedResponses(cfg) ==
    LET fm == cfg.fund_methods
        sm == cfg.stock_methods
    IN  { Resp(Tok("fund"), dp, AllReturn("fund", fm), Tok("stock"),
               AllReturn("stock", sm), NoneV)
            : dp \in DataPointResults }
        \cup
        { Resp(ff[1], ff[2], AllReturn("fund", fm), Tok("stock"),
               AllReturn("stock", sm), ov)
            : ff \in ReducedFundFailures,
              ov \in OverviewResults \cup {Raise(OverviewMsg)} }
        \cup
        { Resp(ff[1], ff[2], AllReturn("fund", fm), Raise(StockBindMsg),
               AllReturn("stock", sm), NoneV)
            : ff \in ReducedFundFailures }

Responses(full, cfg) == IF full THEN FullResponses(cfg) ELSE ReducedResponses(cfg)

----------------------------------------------------------------------------
(* The collector: fetch_isins.py lines 61-116.                             *)

\* safe_call(obj, method): the method's result, or an error marker in place
\* of the exception.  `outcome` is what getattr(obj, method)() does.
safe_call(outcome) ==
    IF Raised(outcome) THEN Dict("_error" :> Tok(outcome.v)) ELSE outcome

\* for m in methods: out[m] = safe_call(handle, m)
RECURSIVE CallEach(_, _, _)
CallEach(out, methods, calls) ==
    IF methods = <<>> THEN out
    ELSE LET m == Head(methods)
         IN  CallEach(SetItem(out, m, safe_call(calls[m])), Tail(methods), calls)

fetch_full_fund(isin, methods, resp) ==
    IF Raised(resp.fundBind) THEN resp.fundBind
    ELSE IF Raised(resp.dataPoint) THEN resp.dataPoint
    ELSE CallEach(("_class" :> Tok("fund")) @@ ("isin" :> Str(isin))
                    @@ ("dataPoint" :> OrEmpty(resp.dataPoint)),
                  methods, resp.fundCall)

fetch_full_stock(isin, methods, resp) ==
    IF Raised(resp.stockBind) THEN resp.stockBind
    ELSE CallEach(("_class" :> Tok("stock")) @@ ("isin" :> Str(isin)),
                  methods, resp.stockCall)

\* The lightweight fund attempt, lines 100-104.
ReducedFund(isin, resp) ==
    IF Raised(resp.fundBind) THEN resp.fundBind
    ELSE IF Raised(resp.dataPoint) THEN resp.dataPoint
    ELSE LET data == OrEmpty(resp.dataPoint)
         IN  IF data.t # "dict"
             THEN Raise("list indices must be integers or slices, not str")
             ELSE Merge("isin" :> Str(isin), SetItem(data.v, "source", Tok("fund")))

\* overview.get("name") if isinstance(overview, dict) else None
NameOf(overview) ==
    IF overview.t = "dict" /\ "name" \in DOMAIN overview.v
    THEN overview.v["name"] ELSE NoneV

\* The lightweight stock attempt, lines 107-114.
ReducedStock(isin, resp) ==
    IF Raised(resp.stockBind) THEN resp.stockBind
    ELSE IF Raised(resp.overview) THEN resp.overview
    ELSE ("isin" :> Str(isin)) @@ ("name" :> NameOf(OrEmpty(resp.overview)))
         @@ ("source" :> Tok("stock"))

IsRaise(x) == DOMAIN x = {"t", "v"} /\ x.t = "raise"

\* Lines 90-98 with the failure of the first attempt surfaced instead of
\* the failure of the last one.
FullModeFirstError(isin, cfg, resp) ==
    LET fund == fetch_full_fund(isin, cfg.fund_methods, resp)
    IN  IF ~IsRaise(fund) THEN fund
        ELSE LET stock == fetch_full_stock(isin, cfg.stock_methods, resp)
             IN  IF ~IsRaise(stock) THEN stock
                 ELSE ("isin" :> Str(isin)) @@ ("_class" :> Tok("unknown"))
                      @@ ("_error" :> Tok(fund.v))

\* Lines 90-98: the full mode.
FullMode(isin, cfg, resp) ==
    LET fund == fetch_full_fund(isin, cfg.fund_methods, resp)
    IN  IF ~IsRaise(fund) THEN fund
        ELSE LET stock == fetch_full_stock(isin, cfg.stock_methods, resp)
             IN  IF ~IsRaise(stock) THEN stock
                 ELSE ("isin" :> Str(isin)) @@ ("_class" :> Tok("unknown"))
                      @@ ("_error" :> Tok(stock.v))

\* Lines 99-116: the lightweight mode.
ReducedMode(isin, resp) ==
    LET fund == ReducedFund(isin, resp)
    IN  IF ~IsRaise(fund) THEN fund
        ELSE LET stock == ReducedStock(isin, resp)
             IN  IF ~IsRaise(stock) THEN stock
                 ELSE ("isin" :> Str(isin)) @@ ("error" :> Tok(stock.v))
                      @@ ("source" :> Tok("unknown"))

\* lines 89-116 without the last handler of either mode: the failure of the
\* stock attempt leaves the function
fetch_info_uncaught(isin, full, cfg, resp) ==
    LET rec == IF full THEN FullMode(isin, cfg, resp) ELSE ReducedMode(isin, resp)
    IN  IF (full /\ "_error" \in DOMAIN rec) \/ (~full /\ "error" \in DOMAIN rec)
        THEN Raise(IF full THEN rec["_error"].v ELSE rec["error"].v)
        ELSE rec

fetch_info_for_isin(isin, full, cfg, resp) ==
    IF full THEN FullMode(isin, cfg, resp) ELSE ReducedMode(isin, resp)

----------------------------------------------------------------------------
(* Field names and their order.  sorted() orders str by code point; the    *)
(* spelling of every field name the model uses is kept here so that the    *)
(* order is computed, character by character, as Python computes it.       *)

Lower == <<"a", "b", "c", "d", "e", "f", "g", "h", "i", "j", "k", "l", "m",
           "n", "o", "p", "q", "r", "s", "t", "u", "v", "w", "x", "y", "z">>
Upper == <<"A", "B", "C", "D", "E", "F", "G", "H", "I", "J", "K", "L", "M",
           "N", "O", "P", "Q", "R", "S", "T", "U", "V", "W", "X", "Y", "Z">>

\* ord(c) for the characters of field names
OrdTable ==
    [c \in Range(Lower) \cup Range(Upper) \cup {"_"} |->
        IF c = "_" THEN 95
        ELSE IF c \in Range(Upper) THEN 64 + (CHOOSE i \in DOMAIN Upper : Upper[i] = c)
        ELSE 96 + (CHOOSE i \in DOMAIN Lower : Lower[i] = c)]
Ord(c) == OrdTable[c]

Spelling ==
    [ _class |-> <<"_", "c", "l", "a", "s", "s">>,
      _error |-> <<"_", "e", "r", "r", "o", "r">>,
      dataPoint |-> <<"d", "a", "t", "a", "P", "o", "i", "n", "t">>,
      dividends |-> <<"d", "i", "v", "i", "d", "e", "n", "d", "s">>,
      error |-> <<"e", "r", "r", "o", "r">>,
      graphData |-> <<"g", "r", "a", "p", "h", "D", "a", "t", "a">>,
      holdings |-> <<"h", "o", "l", "d", "i", "n", "g", "s">>,
      isin |-> <<"i", "s", "i", "n">>,
      name |-> <<"n", "a", "m", "e">>,
      overview |-> <<"o", "v", "e", "r", "v", "i", "e", "w">>,
      previousClosePrice |-> <<"p", "r", "e", "v", "i", "o", "u", "s", "C", "l",
                               "o", "s", "e", "P", "r", "i", "c", "e">>,
      source |-> <<"s", "o", "u", "r", "c", "e">>,
      a |-> <<"a">>, ab |-> <<"a", "b">>, b |-> <<"b">>, B |-> <<"B">> ]

\* s < t for two character sequences, as Python compares str
RECURSIVE SeqLess(_, _)
SeqLess(s, t) ==
    IF t = <<>> THEN FALSE
    ELSE IF s = <<>> THEN TRUE
    ELSE IF Ord(Head(s)) # Ord(Head(t)) THEN Ord(Head(s)) < Ord(Head(t))
    ELSE SeqLess(Tail(s), Tail(t))

StrLess(x, y) == SeqLess(Spelling[x], Spelling[y])

\* sorted(S) for a set S of field names
RECURSIVE Sorted(_)
Sorted(S) ==
    IF S = {} THEN <<>>
    ELSE LET least == CHOOSE x \in S : \A y \in S \ {x} : StrLess(x, y)
         IN  <<least>> \o Sorted(S \ {least})

----------------------------------------------------------------------------
(* The writers: fetch_isins.py lines 119-130.                              *)

write_json(rows) == [t |-> "json", v |-> rows]

\* the text csv writes for a value: nothing for None, str(value) otherwise
CsvText(x) == IF x.t = "none" THEN Tok("") ELSE [t |-> "text", v |-> x]

\* DictWriter._dict_to_list: the row's cells in header order, restval ""
CsvCells(row, fieldnames) ==
    [j \in DOMAIN fieldnames |->
        IF fieldnames[j] \in DOMAIN row THEN CsvText(row[fieldnames[j]]) ELSE Tok("")]

\* line 125 with the header taken from the first record only
FieldNamesOfFirst(rows) == IF rows = <<>> THEN <<>> ELSE Sorted(DOMAIN rows[1])

\* line 125
FieldNames(rows) == Sorted(UNION {DOMAIN rows[i] : i \in DOMAIN rows})

\* DictWriter raises ValueError on a row with a key that is no fieldname
\* (extrasaction="raise", the default).
write_csv(rows) ==
    LET fieldnames == FieldNames(rows)
    IN  IF \E i \in DOMAIN rows : ~(DOMAIN rows[i] \subseteq Range(fieldnames))
        THEN Raise("dict contains fields not in fieldnames")
        ELSE [t |-> "csv", header |-> fieldnames,
              rows |-> [i \in DOMAIN rows |-> CsvCells(rows[i], fieldnames)]]

----------------------------------------------------------------------------
(* main: fetch_isins.py lines 133-163.                                     *)

\* lines of ISINs.txt the runs of main read
MainLines == { <<>>, <<"#", "A">>, <<"A">>, <<"B", " ", "#">> }

\* what load_methods can return to a run of main
MainConfigs ==
    { [fund_methods |-> <<"graphData">>, stock_methods |-> <<"overview">>],
      [fund_methods |-> <<>>, stock_methods |-> <<>>] }

Init ==
    /\ pc = "start"
    /\ fileExists \in BOOLEAN
    /\ fileLines \in SeqsUpTo(MainLines, MaxLines)
    /\ ~fileExists => fileLines = <<>>
    /\ args \in [full : BOOLEAN, format : {"json", "csv"}]
    /\ methods_cfg \in MainConfigs
    /\ isins = <<>> /\ idx = 0 /\ results = <<>> /\ bound = <<>>
    /\ outFile = <<>> /\ exitCode = <<>>
    /\ ReadIdle /\ FetchIdle /\ FlatIdle /\ CsvIdle /\ SeriesIdle
    /\ CompareIdle

others == <<readVars, fetchVars, flatVars, csvVars, seriesVars, compareVars>>

\* lines 143-145: ISINs.txt is missing
FileMissing ==
    /\ pc = "start" /\ ~fileExists
    /\ pc' = "done" /\ exitCode' = <<1>>
    /\ UNCHANGED <<fileExists, fileLines, args, methods_cfg, isins, idx, results,
                   bound, outFile, others>>

\* lines 146-150: the identifiers are read; none means return 1
ReadIsins ==
    /\ pc = "start" /\ fileExists
    /\ isins' = read_isins(fileLines)
    /\ IF isins' = <<>>
       THEN pc' = "done" /\ exitCode' = <<1>> /\ idx' = idx
       ELSE pc' = "loop" /\ exitCode' = exitCode /\ idx' = 1
    /\ UNCHANGED <<fileExists, fileLines, args, methods_cfg, results, bound,
                   outFile, others>>

\* lines 151-153: one iteration of the loop.  An exception leaving
\* fetch_info_for_isin would leave main too and end the process with status 1.
FetchOne ==
    /\ pc = "loop" /\ idx <= Len(isins)
    /\ \E resp \in Responses(args.full, methods_cfg) :
         LET rec == fetch_info_for_isin(isins[idx], args.full, methods_cfg, resp)
         IN  IF IsRaise(rec)
             THEN /\ pc' = "done" /\ exitCode' = <<1>>
                  /\ UNCHANGED <<results, idx>>
             ELSE /\ results' = Append(results, rec)
                  /\ idx' = idx + 1
                  /\ UNCHANGED <<pc, exitCode>>
    /\ bound' = Append(bound, isins[idx])
    /\ UNCHANGED <<fileExists, fileLines, args, methods_cfg, isins, outFile, others>>

\* lines 155-163 run before the loop has ended
WriteInLoop ==
    /\ pc = "loop"
    /\ outFile' = Append(outFile, write_json(results))
    /\ pc' = IF idx > Len(isins) THEN "done" ELSE pc
    /\ exitCode' = IF idx > Len(isins) THEN <<0>> ELSE exitCode
    /\ UNCHANGED <<fileExists, fileLines, args, methods_cfg, isins, idx, results,
                   bound, others>>

\* lines 155-163: the loop is over, the output is written, main returns 0.
\* A writer that raises ends the process with status 1.
WriteOutput ==
    /\ pc = "loop" /\ idx > Len(isins)
    /\ LET out == IF args.format = "json" THEN write_json(results)
                                          ELSE write_csv(results)
       IN  IF Raised(out)
           THEN outFile' = outFile /\ exitCode' = <<1>>
           ELSE outFile' = Append(outFile, out) /\ exitCode' = <<0>>
    /\ pc' = "done"
    /\ UNCHANGED <<fileExists, fileLines, args, methods_cfg, isins, idx, results,
                   bound, others>>

Next == FileMissing \/ ReadIsins \/ FetchOne \/ WriteOutput

Spec == Init /\ [][Next]_vars

----------------------------------------------------------------------------
(* C1 *)

Unknown(rec) ==
    \/ "_class" \in DOMAIN rec /\ rec["_class"] = Tok("unknown")
    \/ "source" \in DOMAIN rec /\ rec["source"] = Tok("unknown")

\* the number of records of what was written
Written(out) == IF out.t = "json" THEN Len(out.v) ELSE Len(out.rows)

\* C1: for a non-empty identifier list and any provider outcomes, in both
\* modes, the result list of main has exactly one record per identifier: after
\* k iterations it holds k records, and when main has returned it holds (and
\* the output holds) as many records as there are identifiers.
C1_OneRecordPerIsin ==
    /\ pc = "loop" => Len(results) = idx - 1 /\ Len(results) = Len(bound)
                      /\ Len(results) <= Len(isins)
    /\ pc = "done" /\ isins # <<>> => Len(results) = Len(isins)
    /\ \A w \in DOMAIN outFile : Written(outFile[w]) = Len(isins)

\* Two identifiers, every lookup failed, and main has returned two records.
C1_Witness ==
    /\ pc = "done" /\ Len(isins) = 2 /\ Len(results) = 2
    /\ \A k \in DOMAIN results : Unknown(results[k])

----------------------------------------------------------------------------
(* C9 *)

\* C9: main returns non-zero, binds nothing and writes nothing when the
\* identifier file is missing or yields no identifier; otherwise it processes
\* the identifiers one at a time in list order, writes the output exactly once
\* and only after the last identifier, and returns 0.
C9_RunOutcome ==
    /\ Len(bound) <= Len(isins) /\ bound = SubSeq(isins, 1, Len(bound))
    /\ Len(outFile) <= 1
    /\ outFile # <<>> => pc = "done" /\ bound = isins /\ Len(results) = Len(isins)
    /\ pc = "done" =>
         IF ~fileExists \/ Expected(fileLines) = <<>>
         THEN exitCode = <<1>> /\ bound = <<>> /\ outFile = <<>>
         ELSE exitCode = <<0>> /\ Len(outFile) = 1 /\ bound = Expected(fileLines)
    /\ pc # "done" => exitCode = <<>>
    /\ pc = "loop" => idx \in 1..(Len(isins) + 1) /\ Len(bound) = idx - 1

\* main has returned 0 after two identifiers and has written a CSV of two rows.
C9_Witness ==
    /\ pc = "done" /\ exitCode = <<0>> /\ Len(isins) = 2
    /\ Len(outFile) = 1 /\ outFile[1].t = "csv" /\ Len(outFile[1].rows) = 2

----------------------------------------------------------------------------
(* fetch_info_for_isin on its own: one call, on every identifier, mode,    *)
(* method catalog and provider response of the bounds.                     *)

MaxMethods == 2     \* entries in one list of the method catalog

\* Operation names a catalog can list.  methods_config.json is free text, so
\* a name can coincide with a field the collector sets itself.
FundNames  == {"graphData", "holdings", "_class", "dataPoint"}
StockNames == {"overview", "dividends", "isin"}

\* the lists of at most n distinct names of S
Catalogs(S, n) == {q \in SeqsUpTo(S, n) : \A i, j \in DOMAIN q : i # j => q[i] # q[j]}

MethodConfigs ==
    [fund_methods : Catalogs(FundNames, MaxMethods),
     stock_methods : Catalogs(StockNames, MaxMethods)]

FetchIsins == { <<"A">>, <<"A", "B">> }

InitFetch ==
    /\ fetchCall \in [isin : FetchIsins, full : BOOLEAN, cfg : MethodConfigs]
    /\ fetchRet = NotYet
    /\ MainIdle /\ ReadIdle /\ FlatIdle /\ CsvIdle /\ SeriesIdle
    /\ CompareIdle

DoFetch ==
    /\ fetchRet = NotYet
    /\ \E resp \in Responses(fetchCall.full, fetchCall.cfg) :
         fetchRet' = [t |-> "return", resp |-> resp,
                      v |-> fetch_info_for_isin(fetchCall.isin, fetchCall.full,
                                                fetchCall.cfg, resp)]
    /\ UNCHANGED <<fetchCall, mainVars, readVars, flatVars, csvVars, seriesVars,
                 compareVars>>

NextFetch == DoFetch

SpecFetch == InitFetch /\ [][NextFetch]_vars

Returned == fetchRet.t = "return"

----------------------------------------------------------------------------
(* C2 *)

ErrorMarker(msg) == Dict("_error" :> Tok(msg))

\* a value the provider's fund handle produced
FromFund(x) == x.t = "native" /\ x.v[1] = "fund"

FundAttemptOk(resp) == ~Raised(resp.fundBind) /\ ~Raised(resp.dataPoint)

\* C2: in full mode the fund is probed first and its record returned when
\* binding and reference lookup succeed; if either raises, nothing of the fund
\* attempt is in the result and the identifier is bound as a stock, giving the
\* stock record with one field per entry of stock_methods; if the stock
\* binding raises too, the result is {isin, _class: "unknown", _error: m} with
\* m the message of the stock binding's failure.  No exception escapes.
C2_FullModeFallback ==
    Returned /\ fetchCall.full =>
        LET resp == fetchRet.resp
            rec  == fetchRet.v
            fm   == fetchCall.cfg.fund_methods
            sm   == fetchCall.cfg.stock_methods
        IN  /\ ~IsRaise(rec)
            /\ FundAttemptOk(resp) =>
                 /\ DOMAIN rec = {"_class", "isin", "dataPoint"} \cup Range(fm)
                 /\ "dataPoint" \notin Range(fm) => rec["dataPoint"] = OrEmpty(resp.dataPoint)
                 /\ \A m \in Range(fm) :
                      rec[m] \in {Native("fund", m), ErrorMarker(CallMsg(m))}
            /\ ~FundAttemptOk(resp) /\ ~Raised(resp.stockBind) =>
                 /\ DOMAIN rec = {"_class", "isin"} \cup Range(sm)
                 /\ rec["_class"] = Tok("stock")
                 /\ \A k \in DOMAIN rec : ~FromFund(rec[k])
                 /\ \A m \in Range(sm) :
                      rec[m] \in {Native("stock", m), ErrorMarker(CallMsg(m))}
            /\ ~FundAttemptOk(resp) /\ Raised(resp.stockBind) =>
                 rec = ("isin" :> Str(fetchCall.isin)) @@ ("_class" :> Tok("unknown"))
                       @@ ("_error" :> Tok(StockBindMsg))

\* Both bindings raised in full mode, and the unknown record was returned.
C2_Witness ==
    /\ Returned /\ fetchCall.full
    /\ Raised(fetchRet.resp.fundBind) /\ Raised(fetchRet.resp.stockBind)
    /\ fetchRet.v["_class"] = Tok("unknown")

----------------------------------------------------------------------------
(* C3 *)

Kinds == {Tok("fund"), Tok("stock"), Tok("unknown")}

\* C3: every record carries exactly one kind discriminant with a value in
\* {fund, stock, unknown}: _class in full mode, source in reduced mode.
C3_OneDiscriminant ==
    Returned =>
        LET rec == fetchRet.v
        IN  IF fetchCall.full
            THEN /\ "_class" \in DOMAIN rec /\ rec["_class"] \in Kinds
                 /\ "source" \notin DOMAIN rec
            ELSE /\ "source" \in DOMAIN rec /\ rec["source"] \in Kinds
                 /\ "_class" \notin DOMAIN rec

----------------------------------------------------------------------------
(* C4 *)

\* the kind the bindings decided
BoundKind(resp) == IF FundAttemptOk(resp) THEN "fund" ELSE "stock"

\* the response that differs from resp only in that operation A succeeds
Healed(resp, kind, A) ==
    IF kind = "fund" THEN [resp EXCEPT !.fundCall[A] = Native("fund", A)]
                     ELSE [resp EXCEPT !.stockCall[A] = Native("stock", A)]

\* C4: once an identifier is bound in full mode, for all catalog operations A
\* and B, if A raises and B succeeds the record holds B's native result under
\* B and an error marker under A; the failure does not abort the record, does
\* not change its _class (the record has the _class it has when A succeeds),
\* and every catalog operation has a field.
C4_FailureIsolation ==
    Returned /\ fetchCall.full
             /\ (FundAttemptOk(fetchRet.resp) \/ ~Raised(fetchRet.resp.stockBind)) =>
        LET resp  == fetchRet.resp
            rec   == fetchRet.v
            kind  == BoundKind(resp)
            ms    == IF kind = "fund" THEN fetchCall.cfg.fund_methods
                                      ELSE fetchCall.cfg.stock_methods
            calls == IF kind = "fund" THEN resp.fundCall ELSE resp.stockCall
        IN  /\ Range(ms) \subseteq DOMAIN rec
            /\ \A A, B \in Range(ms) :
                 Raised(calls[A]) /\ ~Raised(calls[B]) =>
                    /\ rec[B] = Native(kind, B)
                    /\ rec[A] = ErrorMarker(CallMsg(A))
                    /\ rec["_class"] =
                         fetch_info_for_isin(fetchCall.isin, TRUE, fetchCall.cfg,
                                             Healed(resp, kind, A))["_class"]

----------------------------------------------------------------------------
(* C12 *)

\* the kind the collector decides from the two attempts
DecidedKind(full, resp) ==
    LET fundOk == IF full THEN FundAttemptOk(resp)
                  ELSE FundAttemptOk(resp) /\ OrEmpty(resp.dataPoint).t = "dict"
        stockOk == IF full THEN ~Raised(resp.stockBind)
                   ELSE ~Raised(resp.stockBind) /\ ~Raised(resp.overview)
    IN  IF fundOk THEN "fund" ELSE IF stockOk THEN "stock" ELSE "unknown"

\* the field that holds the discriminant
KindField(full) == IF full THEN "_class" ELSE "source"

\* C12: for every identifier, mode, catalog and provider response the record
\* has an isin field equal to the input identifier, and its discriminant is
\* the one the collector set: neither the lookup result merged into a
\* reduced-mode fund record nor a catalog entry named like a reserved field
\* replaces them.
C12_IdentifierKept ==
    Returned =>
        LET rec == fetchRet.v
        IN  /\ "isin" \in DOMAIN rec
            /\ rec["isin"] = Str(fetchCall.isin)
            /\ KindField(fetchCall.full) \in DOMAIN rec
            /\ rec[KindField(fetchCall.full)]
                 = Tok(DecidedKind(fetchCall.full, fetchRet.resp))

----------------------------------------------------------------------------
(* flatten_values: streamlit_app.py lines 38-49.                           *)

Num(n) == [t |-> "num", v |-> n]

\* len(obj) <= 3 in the expand rule
MaxContainerKeys == 3

\* f"prop_{k}"
PropKey(k) == "prop_" \o k

RECURSIVE flatten_values(_)

\* line 42: the condition of the expand rule
IsExpandable(o) ==
    /\ "value" \in DOMAIN o
    /\ "properties" \in DOMAIN o /\ o["properties"].t = "dict"
    /\ Cardinality(DOMAIN o) <= MaxContainerKeys

\* line 44
Props(o) ==
    LET p == o["properties"].v
    IN  [pk \in {PropKey(k) : k \in DOMAIN p} |->
            flatten_values(p[CHOOSE k \in DOMAIN p : PropKey(k) = pk])]

\* lines 43-45 with the base entries kept as they are
ExpandRaw(o) ==
    Dict(Merge([k \in DOMAIN o \ {"properties"} |-> o[k]], Props(o)))

\* lines 43-45: the expand rule
Expand(o) ==
    Dict(Merge([k \in DOMAIN o \ {"properties"} |-> flatten_values(o[k])], Props(o)))

flatten_values(x) ==
    IF x.t = "dict"
    THEN IF DOMAIN x.v = {"value"} THEN x.v["value"]
         ELSE IF IsExpandable(x.v) THEN Expand(x.v)
         ELSE Dict([k \in DOMAIN x.v |-> flatten_values(x.v[k])])
    ELSE IF x.t = "list"
    THEN List([i \in DOMAIN x.v |-> flatten_values(x.v[i])])
    ELSE x

(* The JSON-like inputs: built level by level from one scalar.              *)
MaxListLen == 1     \* elements of a list in an input

KeySets == { {}, {"value"}, {"k"}, {"value", "k"}, {"value", "properties"},
             {"value", "properties", "k"}, {"value", "properties", "k", "x"} }

Level0 == { Num(1) }
Above(L) ==
    L \cup { Dict(f) : f \in UNION { [ks -> L] : ks \in KeySets } }
      \cup { List(q) : q \in SeqsUpTo(L, MaxListLen) }
Level1 == Above(Level0)
Level2 == Above(Level1)

\* {"value": v, "properties": {"k": pv}}
ValueWithProperty(v, pv) ==
    Dict(("value" :> v) @@ ("properties" :> Dict("k" :> pv)))

FlattenInputs ==
    Level2 \cup { ValueWithProperty(v, pv) : v \in Level1, pv \in Level1 }

InitFlatten ==
    /\ obj \in FlattenInputs
    /\ once = NotYet /\ twice = NotYet
    /\ MainIdle /\ ReadIdle /\ FetchIdle /\ CsvIdle /\ SeriesIdle
    /\ CompareIdle

\* flatten_values(obj)
FlattenOnce ==
    /\ once = NotYet
    /\ once' = [t |-> "return", v |-> flatten_values(obj)]
    /\ UNCHANGED <<obj, twice, mainVars, readVars, fetchVars, csvVars, seriesVars,
                 compareVars>>

\* flatten_values applied to its own result
FlattenTwice ==
    /\ once # NotYet /\ twice = NotYet
    /\ twice' = [t |-> "return", v |-> flatten_values(once.v)]
    /\ UNCHANGED <<obj, once, mainVars, readVars, fetchVars, csvVars, seriesVars,
                 compareVars>>

NextFlatten == FlattenOnce \/ FlattenTwice

SpecFlatten == InitFlatten /\ [][NextFlatten]_vars

----------------------------------------------------------------------------
(* C5 *)

\* C5: flatten_values is idempotent: flattening the flattened value gives
\* the flattened value again.
C5_Idempotent == twice # NotYet => twice.v = once.v

----------------------------------------------------------------------------
(* C6 *)

\* obj is {"value": v, "properties": {"k": pv}} for some v and pv
IsValueWithProperty(x) ==
    /\ x.t = "dict" /\ DOMAIN x.v = {"value", "properties"}
    /\ x.v["properties"].t = "dict" /\ DOMAIN x.v["properties"].v = {"k"}

\* C6 as stated: the result is an object whose value is v itself and whose
\* prop_k is flatten_values(pv), without a properties field.
C6_ExpansionKeepsValue ==
    once # NotYet /\ IsValueWithProperty(obj) =>
        once.v = Dict(("value" :> obj.v["value"])
                      @@ ("prop_k" :> flatten_values(obj.v["properties"].v["k"])))

\* C6 as amended: the result is an object whose value is flatten_values(v)
\* and whose prop_k is flatten_values(pv), without a properties field.
C6_ExpansionFlattensValue ==
    once # NotYet /\ IsValueWithProperty(obj) =>
        /\ once.v.t = "dict" /\ DOMAIN once.v.v = {"value", "prop_k"}
        /\ once.v.v["value"] = flatten_values(obj.v["value"])
        /\ once.v.v["prop_k"] = flatten_values(obj.v["properties"].v["k"])

\* {"value": {"value": 1}, "properties": {"k": {"value": 1}}} has been
\* flattened to {"value": 1, "prop_k": 1}.
C6_Witness ==
    /\ once # NotYet
    /\ obj = ValueWithProperty(Dict("value" :> Num(1)), Dict("value" :> Num(1)))
    /\ once.v = Dict(("value" :> Num(1)) @@ ("prop_k" :> Num(1)))

----------------------------------------------------------------------------
(* write_csv on its own: every list of records of the bounds.              *)

MaxRows == 2        \* records handed to write_csv

CsvNames  == {"a", "ab", "b", "B"}
CsvValues == {Num(1), Num(2)}
\* the records over these names whose fields all hold the same value
CsvRecords == UNION { [ks -> {x}] : ks \in SUBSET CsvNames, x \in CsvValues }

InitCsv ==
    /\ csvRows \in SeqsUpTo(CsvRecords, MaxRows)
    /\ csvOut = NotYet
    /\ MainIdle /\ ReadIdle /\ FetchIdle /\ FlatIdle /\ SeriesIdle
    /\ CompareIdle

DoWriteCsv ==
    /\ csvOut = NotYet
    /\ csvOut' = write_csv(csvRows)
    /\ UNCHANGED <<csvRows, mainVars, readVars, fetchVars, flatVars, seriesVars,
                 compareVars>>

NextCsv == DoWriteCsv

SpecCsv == InitCsv /\ [][NextCsv]_vars

----------------------------------------------------------------------------
(* C7 *)

\* C7: write_csv never fails on records with differing field sets; its
\* header is the lexicographically sorted union of the records' field names,
\* and it writes one row per record, in input order, with one cell per header
\* field: the field's text when the record has it, an empty cell when not.
C7_SchemaUnion ==
    csvOut # NotYet =>
        /\ ~Raised(csvOut)
        /\ Range(csvOut.header) = UNION {DOMAIN csvRows[i] : i \in DOMAIN csvRows}
        /\ \A j \in 1..(Len(csvOut.header) - 1) :
             StrLess(csvOut.header[j], csvOut.header[j + 1])
        /\ Len(csvOut.rows) = Len(csvRows)
        /\ \A i \in DOMAIN csvRows :
             /\ Len(csvOut.rows[i]) = Len(csvOut.header)
             /\ \A j \in DOMAIN csvOut.header :
                  LET f == csvOut.header[j]
                  IN  csvOut.rows[i][j] =
                        IF f \in DOMAIN csvRows[i]
                        THEN [t |-> "text", v |-> csvRows[i][f]]
                        ELSE Tok("")

\* [{"a": 1}, {"b": 2}] has been written: header a, b and one empty cell a row.
C7_Witness ==
    /\ csvOut # NotYet
    /\ csvRows = << ("a" :> Num(1)), ("b" :> Num(2)) >>
    /\ csvOut.header = <<"a", "b">>
    /\ csvOut.rows = << <<[t |-> "text", v |-> Num(1)], Tok("")>>,
                        <<Tok(""), [t |-> "text", v |-> Num(2)]>> >>

----------------------------------------------------------------------------
(* _price_series_from_graphdata: streamlit_app.py lines 85-114.            *)

\* a str that pd.to_numeric reads as the number n
NumStr(n) == [t |-> "numstr", v |-> n]

\* d.get(k): None when the key is absent
Get(d, k) == IF k \in DOMAIN d THEN d[k] ELSE NoneV

\* line 101
QuarterKeys == <<"naQ1", "naQ2", "naQ3", "naQ4">>

\* line 106: the month and day that end each quarter
QuarterEnd == << <<3, 31>>, <<6, 30>>, <<9, 30>>, <<12, 31>> >>

\* lines 106-108: pd.to_datetime(f"{yr}-{month_day}"), a date <<year, month, day>>
DateOf(yr, q) == <<yr, QuarterEnd[q][1], QuarterEnd[q][2]>>

\* the order of timestamps
DateLess(d, e) ==
    \/ d[1] < e[1]
    \/ d[1] = e[1] /\ d[2] < e[2]
    \/ d[1] = e[1] /\ d[2] = e[2] /\ d[3] < e[3]

\* pd.to_numeric(val, errors="coerce") on a scalar: NaN for what is no number
NaN == [t |-> "nan", v |-> 0]
ToNumeric(val) ==
    IF val.t = "num" THEN val
    ELSE IF val.t = "numstr" THEN Num(val.v)
    ELSE NaN

\* lines 101-108: the records one row appends, quarter by quarter from q on
RECURSIVE QuarterRecords(_, _, _)
QuarterRecords(r, yr, q) ==
    IF q > Len(QuarterKeys) THEN <<>>
    ELSE LET val == Get(r, QuarterKeys[q])
         IN  (IF val.t = "none" THEN <<>>
              ELSE << [date |-> DateOf(yr, q), price |-> ToNumeric(val)] >>)
             \o QuarterRecords(r, yr, q + 1)

\* lines 95-108: the records of all rows
RECURSIVE Records(_)
Records(rows) ==
    IF rows = <<>> THEN <<>>
    ELSE LET r == Head(rows)
         IN  (IF r.t # "dict" THEN <<>>
              ELSE IF Get(r.v, "yr").t # "num" THEN <<>>
              ELSE QuarterRecords(r.v, Get(r.v, "yr").v, 1))
             \o Records(Tail(rows))

\* DataFrame.dropna(): the records without a NaN
RECURSIVE DropNa(_)
DropNa(recs) ==
    IF recs = <<>> THEN <<>>
    ELSE (IF Head(recs).price = NaN THEN <<>> ELSE <<Head(recs)>>) \o DropNa(Tail(recs))

\* the ways to put x into the date-ordered s so that it stays date-ordered
InsertSorted(s, x) ==
    { SubSeq(s, 1, p) \o <<x>> \o SubSeq(s, p + 1, Len(s)) :
        p \in { p \in 0..Len(s) :
                  /\ \A i \in 1..p : ~DateLess(x.date, s[i].date)
                  /\ \A i \in (p + 1)..Len(s) : ~DateLess(s[i].date, x.date) } }

\* sort_values("date") without the sort
Unsorted(recs) == {recs}

\* sort_values("date"): the rows in ascending date order.  The default sort
\* is not stable, so rows of equal date may come in any order.
RECURSIVE SortValues(_)
SortValues(recs) ==
    IF recs = <<>> THEN {<<>>}
    ELSE UNION { InsertSorted(s, Head(recs)) : s \in SortValues(Tail(recs)) }

NoSeries == [t |-> "none", v |-> <<>>]
Frame(s) == [t |-> "frame", v |-> s]

\* the results the function can return for `cur`
price_series_from_graphdata(cur) ==
    IF cur.t # "dict" THEN {NoSeries}
    ELSE LET gd == Get(cur.v, "graphData")
         IN  IF gd.t # "dict" THEN {NoSeries}
             ELSE LET rows == Get(gd.v, "data")
                  IN  IF rows.t # "list" \/ rows.v = <<>> THEN {NoSeries}
                      ELSE LET records == Records(rows.v)
                           IN  IF records = <<>> THEN {NoSeries}
                               ELSE IF DropNa(records) = <<>> THEN {NoSeries}
                               ELSE { Frame(s) : s \in SortValues(DropNa(records)) }

(* The graphData datasets.                                                 *)
MaxBuckets == 2     \* rows of graphData["data"]

Years == {2019, 2020}

\* a yearly bucket: the keys whose choice is "absent" are left out
Bucket(yr, q1, q2, q3, q4) ==
    LET all == ("yr" :> yr) @@ ("naQ1" :> q1) @@ ("naQ2" :> q2)
               @@ ("naQ3" :> q3) @@ ("naQ4" :> q4)
    IN  Dict([k \in {k \in DOMAIN all : all[k] # Tok("absent")} |-> all[k]])

\* the third and fourth quarter of a bucket: at most one of them is given
LateQuarters == { <<Tok("absent"), Tok("absent")>>, <<NumStr(30), Tok("absent")>>,
                  <<Tok("absent"), Num(10)>> }

GraphRows ==
    { Bucket(Num(y), q1, q2, late[1], late[2]) :
        y \in Years,
        q1 \in {NoneV, Num(10), Num(11)},
        q2 \in {Tok("absent"), Num(20), Tok("n/a")},
        late \in LateQuarters }
    \cup { Bucket(Tok("2020"), Num(10), Num(20), Tok("absent"), Tok("absent")),
           Bucket(Tok("absent"), Num(10), Num(20), Tok("absent"), Tok("absent")),
           Tok("not a row") }

WithGraphData(gd) == Dict(("isin" :> Tok("A")) @@ ("graphData" :> gd))

GraphInputs ==
    { WithGraphData(Dict("data" :> List(rows))) : rows \in SeqsUpTo(GraphRows, MaxBuckets) }
    \cup { List(<<>>),
           Dict("isin" :> Tok("A")),
           WithGraphData(Dict("_error" :> Tok("graphData failed"))),
           WithGraphData(List(<<>>)),
           WithGraphData(Dict("data" :> NoneV)) }

InitSeries ==
    /\ current \in GraphInputs
    /\ series = NotYet
    /\ MainIdle /\ ReadIdle /\ FetchIdle /\ FlatIdle /\ CsvIdle
    /\ CompareIdle

DoPriceSeries ==
    /\ series = NotYet
    /\ series' \in price_series_from_graphdata(current)
    /\ UNCHANGED <<current, mainVars, readVars, fetchVars, flatVars, csvVars,
                   compareVars>>

NextSeries == DoPriceSeries

SpecSeries == InitSeries /\ [][NextSeries]_vars

----------------------------------------------------------------------------
(* C10 *)

\* the rows of the dataset, none when the record holds no list of rows
RowsOf(cur) ==
    IF cur.t = "dict" /\ "graphData" \in DOMAIN cur.v
       /\ cur.v["graphData"].t = "dict" /\ "data" \in DOMAIN cur.v["graphData"].v
       /\ cur.v["graphData"].v["data"].t = "list"
    THEN cur.v["graphData"].v["data"].v ELSE <<>>

IsNumeric(x) == x.t \in {"num", "numstr"}

\* the (row, quarter) pairs that give a point: a yearly bucket (a row with an
\* integer yr) and a quarter whose value is present and numeric
PointSlots(rows) ==
    { sl \in (DOMAIN rows) \X (1..4) :
        /\ rows[sl[1]].t = "dict"
        /\ "yr" \in DOMAIN rows[sl[1]].v /\ rows[sl[1]].v["yr"].t = "num"
        /\ QuarterKeys[sl[2]] \in DOMAIN rows[sl[1]].v
        /\ IsNumeric(rows[sl[1]].v[QuarterKeys[sl[2]]]) }

\* the point of a slot, from the table Q1 -> 03-31, Q2 -> 06-30, Q3 -> 09-30,
\* Q4 -> 12-31
PointOf(rows, sl) ==
    LET r  == rows[sl[1]].v
        md == CASE sl[2] = 1 -> <<3, 31>> [] sl[2] = 2 -> <<6, 30>>
                [] sl[2] = 3 -> <<9, 30>> [] sl[2] = 4 -> <<12, 31>>
    IN  [date |-> <<r["yr"].v, md[1], md[2]>>, price |-> Num(r[QuarterKeys[sl[2]]].v)]

\* The series has one point per (yearly bucket, quarter) whose value is
\* present and numeric, dated with the bucket's year and the quarter's end;
\* other points are dropped; the points are in ascending date order whatever
\* the order of the buckets (no series at all when there is no point).
C10_Points ==
    series # NotYet =>
        LET rows  == RowsOf(current)
            slots == PointSlots(rows)
        IN  IF slots = {} THEN series = NoSeries
            ELSE /\ series.t = "frame"
                 /\ Len(series.v) = Cardinality(slots)
                 /\ \A p \in {PointOf(rows, sl) : sl \in slots} :
                      Cardinality({i \in DOMAIN series.v : series.v[i] = p})
                        = Cardinality({sl \in slots : PointOf(rows, sl) = p})
                 /\ \A i, j \in DOMAIN series.v :
                      i < j => ~DateLess(series.v[j].date, series.v[i].date)

\* {"data": [{"yr": 2020, "naQ1": 10, "naQ2": 20}]} gives exactly
\* (2020-03-31, 10) then (2020-06-30, 20).
C10_Example ==
    series # NotYet
    /\ RowsOf(current) = << Dict(("yr" :> Num(2020)) @@ ("naQ1" :> Num(10))
                                 @@ ("naQ2" :> Num(20))) >>
    => series = Frame(<< [date |-> <<2020, 3, 31>>, price |-> Num(10)],
                         [date |-> <<2020, 6, 30>>, price |-> Num(20)] >>)

\* C10: one point per (yearly bucket, quarter key) with a present, numeric
\* value, dated by the quarter-end table, the rest dropped, in ascending date
\* order whatever the order of the buckets; and the dataset
\* {"data": [{"yr": 2020, "naQ1": 10, "naQ2": 20}]} yields exactly
\* (2020-03-31, 10) then (2020-06-30, 20).
C10_PriceSeries == C10_Points /\ C10_Example

\* Two buckets given with the later year first, one quarter value non-numeric:
\* its point is dropped and the points come out oldest first.
C10_Witness ==
    /\ series # NotYet
    /\ RowsOf(current) = << Dict(("yr" :> Num(2020)) @@ ("naQ1" :> Num(10))
                                 @@ ("naQ2" :> Tok("n/a"))),
                            Dict(("yr" :> Num(2019)) @@ ("naQ1" :> NoneV)
                                 @@ ("naQ4" :> Num(10))) >>
    /\ series = Frame(<< [date |-> <<2019, 12, 31>>, price |-> Num(10)],
                         [date |-> <<2020, 3, 31>>, price |-> Num(10)] >>)

----------------------------------------------------------------------------
(* render_compare: streamlit_app.py lines 275-352.  The model keeps the    *)
(* selection and the two parts that rebase a price series; the summary     *)
(* table of lines 286-297 and the benchmark caption of lines 337-345 write *)
(* nothing that these parts read.                                          *)

\* not x, for the values a name can be
Not(x) == Falsy(x) \/ x = Tok("")

\* lines 23-34: _fund_display_name(entry)
fund_display_name(entry) ==
    LET isin == IF "isin" \in DOMAIN entry THEN entry["isin"] ELSE Tok("?")
        dp   == IF "dataPoint" \in DOMAIN entry THEN entry["dataPoint"] ELSE EmptyDict
        nm   == IF dp.t = "dict" THEN Get(dp.v, "name") ELSE NoneV
        fund == IF Get(entry, "_class") = Tok("fund") /\ nm.t = "dict"
                THEN Get(nm.v, "value") ELSE NoneV
        ov   == Get(entry, "overview")
        name == IF ~Not(fund) THEN fund
                ELSE IF ov.t = "dict" THEN Get(ov.v, "name") ELSE NoneV
    IN  (IF Not(name) THEN "Unnamed" ELSE name.v) \o " (" \o isin.v \o ")"

\* lines 278-280: label_to_isin, a later record winning a label
RECURSIVE label_to_isin(_)
label_to_isin(data) ==
    IF data = <<>> THEN <<>>
    ELSE LET d == data[Len(data)].v
         IN  (fund_display_name(d) :> Get(d, "isin"))
             @@ label_to_isin(SubSeq(data, 1, Len(data) - 1))

\* line 283: the identifiers of the labels picked in the multiselect
SelectedIsins(data, selected_labels) ==
    {label_to_isin(data)[l] : l \in selected_labels}

(* Floating-point numbers, as the fraction n/d in lowest terms with d > 0. *)
Abs(x) == IF x < 0 THEN -x ELSE x

RECURSIVE Gcd(_, _)
Gcd(a, b) == IF b = 0 THEN a ELSE Gcd(b, a % b)

Float(n, d) ==
    LET g == Gcd(Abs(n), Abs(d))
        s == IF d < 0 THEN -1 ELSE 1
    IN  [t |-> "float", v |-> <<(s * n) \div g, (s * d) \div g>>]

Inf    == [t |-> "inf", v |-> 1]
NegInf == [t |-> "inf", v |-> -1]

\* price / base on a numeric column: a zero divisor raises nothing, it gives
\* inf, -inf or NaN
TrueDiv(price, base) ==
    IF base.v # 0 THEN Float(price.v, base.v)
    ELSE IF price.v > 0 THEN Inf
    ELSE IF price.v < 0 THEN NegInf
    ELSE NaN

\* x * 100.0
Times100(x) == IF x.t = "float" THEN Float(x.v[1] * 100, x.v[2]) ELSE x

\* (dfp["price"] / base) * 100.0
Rebased(price, base) == Times100(TrueDiv(price, base))

\* lines 312-314: the frame indexed by date with the one column `name`
RelFrame(name, s, base) ==
    [name |-> name,
     points |-> [i \in DOMAIN s |-> [date |-> s[i].date,
                                     rel |-> Rebased(s[i].price, base)]]]

\* line 336: the frame with the columns series and label added
SeriesFrame(name, s, base) ==
    [label |-> name,
     rows |-> [i \in DOMAIN s |-> [date |-> s[i].date, price |-> s[i].price,
                                   series |-> Rebased(s[i].price, base)]]]

\* lines 303 and 329: the record is skipped
Skipped(d, sel) == Get(d, "isin") \notin sel \/ Get(d, "_class") # Tok("fund")

\* lines 301-314: the values series_list can have after the loop
RECURSIVE RelativeSeries(_, _)
RelativeSeries(data, sel) ==
    IF data = <<>> THEN {<<>>}
    ELSE LET d    == Head(data)
             rest == RelativeSeries(Tail(data), sel)
         IN  IF Skipped(d.v, sel) THEN rest
             ELSE UNION {
                    IF dfp = NoSeries THEN rest
                    ELSE UNION {
                           IF s[1].price.v = 0 THEN rest
                           ELSE { <<RelFrame(fund_display_name(d.v), s, s[1].price)>> \o r
                                    : r \in rest }
                           : s \in SortValues(dfp.v) }
                    : dfp \in price_series_from_graphdata(d) }

\* lines 315-324: the chart of the merged series, or the note
Info(msg)  == [t |-> "info", v |-> msg]
Chart(x)   == [t |-> "chart", v |-> x]
NoComparable == Info("No comparable price series found for selected funds.")
RelativeChart(sl) == IF sl # <<>> THEN Chart(sl) ELSE NoComparable

\* lines 328-352: the charts the second loop can draw, one per series
RECURSIVE BenchmarkCharts(_, _)
BenchmarkCharts(data, sel) ==
    IF data = <<>> THEN {<<>>}
    ELSE LET d    == Head(data)
             rest == BenchmarkCharts(Tail(data), sel)
         IN  IF Skipped(d.v, sel) THEN rest
             ELSE UNION {
                    IF dfp = NoSeries THEN rest
                    ELSE { <<Chart(SeriesFrame(fund_display_name(d.v), dfp.v,
                                               dfp.v[1].price))>> \o r
                             : r \in rest }
                    : dfp \in price_series_from_graphdata(d) }

(* The records handed to the page.                                         *)
MaxCompared == 2    \* records in isin_output.json

CompareIsins == <<"A", "B", "C">>

\* the dataset of the series [10, 20, 5]
ExampleRows == << Bucket(Num(2020), Num(10), Num(20), Num(5), Tok("absent")) >>

\* the buckets of a record's graphData
CompareRows ==
    LET none == Tok("absent")
    IN  { ExampleRows,
          << Bucket(Num(2020), Num(0), Num(20), Num(5), none) >>,
          << Bucket(Num(2020), Num(0), Num(0), none, none) >>,
          << Bucket(Num(2020), NoneV, Num(0), Num(-5), none) >>,
          << Bucket(Num(2020), Tok("n/a"), NumStr(3), Num(10), none) >>,
          << Bucket(Num(2020), Num(20), none, none, none),
             Bucket(Num(2019), none, none, none, Num(-10)) >>,
          << Bucket(Num(2020), Num(0), none, none, none),
             Bucket(Num(2020), Num(10), none, none, none) >>,
          << Bucket(Num(2020), NoneV, none, none, none) >> }

CompareRecord(isin, class, name, gd) ==
    Dict(("isin" :> Tok(isin)) @@ ("_class" :> Tok(class))
         @@ ("dataPoint" :> (IF name = "" THEN EmptyDict
                             ELSE Dict("name" :> Container(Tok(name)))))
         @@ ("graphData" :> gd))

CompareRecords(isin) ==
    { CompareRecord(isin, "fund", "Fonds", Dict("data" :> List(rows)))
        : rows \in CompareRows }
    \cup { CompareRecord(isin, "stock", "Fonds", Dict("data" :> List(ExampleRows))),
           CompareRecord(isin, "fund", "", Dict("_error" :> Tok("graphData failed"))) }

\* the lists of n records, the i-th with the i-th identifier
RECURSIVE CompareLists(_)
CompareLists(n) ==
    IF n = 0 THEN {<<>>}
    ELSE { Append(data, d) : data \in CompareLists(n - 1),
                             d \in CompareRecords(CompareIsins[n]) }

CompareData == UNION { CompareLists(n) : n \in 0..MaxCompared }

InitCompare ==
    /\ cmpData \in CompareData
    /\ selected_isins \in
         { SelectedIsins(cmpData, labels) : labels \in SUBSET DOMAIN label_to_isin(cmpData) }
    /\ series_list = NotYet
    /\ charts = NotYet
    /\ MainIdle /\ ReadIdle /\ FetchIdle /\ FlatIdle /\ CsvIdle /\ SeriesIdle

RenderCompare ==
    /\ series_list = NotYet
    /\ \E sl \in RelativeSeries(cmpData, selected_isins),
          bc \in BenchmarkCharts(cmpData, selected_isins) :
         /\ series_list' = List(sl)
         /\ charts' = [relative |-> RelativeChart(sl), benchmark |-> bc]
    /\ UNCHANGED <<cmpData, selected_isins, mainVars, readVars, fetchVars,
                   flatVars, csvVars, seriesVars>>

NextCompare == RenderCompare

SpecCompare == InitCompare /\ [][NextCompare]_vars

----------------------------------------------------------------------------
(* C11 *)

Rendered == series_list # NotYet

\* the records whose series the page rebases: selected funds
Compared == {i \in DOMAIN cmpData : ~Skipped(cmpData[i].v, selected_isins)}

\* the reconstructed price series a record can have
FramesOf(d) == {dfp.v : dfp \in price_series_from_graphdata(d) \ {NoSeries}}

\* x is the number n / d
IsQuotient(x, n, d) == x.t = "float" /\ x.v[1] * d = n * x.v[2]

\* pts, read in column col, is the series s rebased to its first point:
\* the same dates, every value the price divided by the first price, times 100
IsRebaseOf(pts, col, s) ==
    /\ Len(pts) = Len(s)
    /\ s[1].price.v # 0
    /\ \A k \in DOMAIN s :
         /\ pts[k].date = s[k].date
         /\ IsQuotient(pts[k][col], s[k].price.v * 100, s[1].price.v)

\* the first value of every series the record can have is 0
FirstIsZero(d) == FramesOf(d) # {} /\ \A s \in FramesOf(d) : s[1].price.v = 0

\* The relative-performance part, lines 299-324.
C11_Relative ==
    Rendered =>
        LET sl == series_list.v
        IN  /\ \A j \in DOMAIN sl :
                 \E i \in Compared :
                    /\ sl[j].name = fund_display_name(cmpData[i].v)
                    /\ \E s \in FramesOf(cmpData[i]) : IsRebaseOf(sl[j].points, "rel", s)
            /\ \A i \in Compared :
                 FirstIsZero(cmpData[i]) =>
                    \A j \in DOMAIN sl : sl[j].name # fund_display_name(cmpData[i].v)
            /\ sl = <<>> => charts.relative = NoComparable

\* The fund-versus-benchmark part, lines 326-336.
C11_Benchmark ==
    Rendered =>
        LET bc == charts.benchmark
        IN  /\ \A j \in DOMAIN bc :
                 \E i \in Compared :
                    /\ bc[j].v.label = fund_display_name(cmpData[i].v)
                    /\ \E s \in FramesOf(cmpData[i]) : IsRebaseOf(bc[j].v.rows, "series", s)
            /\ \A i \in Compared :
                 FirstIsZero(cmpData[i]) =>
                    \A j \in DOMAIN bc : bc[j].v.label # fund_display_name(cmpData[i].v)

ExampleRebased == << Float(100, 1), Float(200, 1), Float(50, 1) >>

\* The series [10, 20, 5] of a selected fund becomes [100, 200, 50].
C11_Example ==
    Rendered =>
        \A i \in Compared :
            RowsOf(cmpData[i]) = ExampleRows =>
                /\ \E j \in DOMAIN series_list.v :
                     /\ series_list.v[j].name = fund_display_name(cmpData[i].v)
                     /\ [k \in 1..3 |-> series_list.v[j].points[k].rel] = ExampleRebased
                /\ \E j \in DOMAIN charts.benchmark :
                     /\ charts.benchmark[j].v.label = fund_display_name(cmpData[i].v)
                     /\ [k \in 1..3 |-> charts.benchmark[j].v.rows[k].series] = ExampleRebased

\* C11: wherever the page rebases a reconstructed price series to its first
\* point (the relative-performance part and the fund-versus-benchmark part),
\* every value is the price divided by the first point's price and multiplied
\* by 100, so that [10, 20, 5] becomes [100, 200, 50]; and a series whose
\* first value is 0 is left out (the note "No comparable price series" when
\* none is left) instead of being divided by zero.
C11_Rebasing == C11_Relative /\ C11_Benchmark /\ C11_Example

====
